---- MODULE Spec2Model ----
(***************************************************************************)
(* State-machine model of the webrtc-audio-processing wrapper             *)
(* (webrtc-audio-processing-sys/src/wrapper.cpp, wrapper.hpp).             *)
(*                                                                         *)
(* The wrapper is a thin C-compatible layer over webrtc::AudioProcessing   *)
(* (the "engine").  The engine is opaque: its status codes and statistics  *)
(* are nondeterministic inputs, and every call the wrapper makes on it is  *)
(* recorded in `trace` so that properties can speak about what the engine  *)
(* was handed, in which order.                                             *)
(*                                                                         *)
(* An optional value (std::optional, a nullable pointer) is a sequence of  *)
(* length 0 (absent) or 1 (present).                                       *)
(***************************************************************************)
EXTENDS Integers, Sequences, FiniteSets

VARIABLES
    ap,             \* the AudioProcessing session: NULL or <<struct>>
    engine,         \* ap->processor, the engine instance: NULL or <<state>>
    heap,           \* objects currently allocated
    config_holder,  \* shared echo-canceller config holder (hotswap protocol)
    call,           \* the name of the last wrapper function called
    args,           \* the arguments it was called with
    trace,          \* calls the last wrapper function made on its collaborators
    ret,            \* the int the last wrapper function returned, if any
    ret_ap,         \* the session pointer it returned, if any
    ret_stats,      \* the Stats it returned, if any
    error,          \* the caller's int that create's `error` points to
    last_delay_arg, \* history: the argument of the caller's latest
                    \* set_stream_delay_ms on this session, NULL if none
    threads         \* two caller threads inside wrapper functions: where
                    \* each one is and the values it holds in locals

vars == <<ap, engine, heap, config_holder, call, args, trace, ret, ret_ap,
          ret_stats, error, last_delay_arg, threads>>

----------------------------------------------------------------------------
(* Bounds of the model *)

\* stream delays the caller passes are 0..MaxDelay
MaxDelay == 1
\* a statistic the engine reports carries a value in 1..MaxStatValue
MaxStatValue == 1

----------------------------------------------------------------------------
(* Optional values *)

NULL == <<>>
Some(v) == <<v>>

\* std::optional<T>::value_or
value_or(opt, default) == IF opt = NULL THEN default ELSE opt[1]

Range(s) == {s[i] : i \in 1..Len(s)}

----------------------------------------------------------------------------
(* The engine's interface *)

\* webrtc::AudioProcessing::kNoError
kNoError == 0

\* Status codes the engine may return: kNoError, kBadSampleRateError,
\* kBadNumberChannelsError.
EngineCodes == {kNoError, -7, -9}

\* Frame duration in ms, webrtc::AudioProcessing::kChunkSizeMs
kChunkSizeMs == 10

SampleRates == {8000, 16000, 32000, 48000}
Channels == {1, 2}
Delays == 0..MaxDelay

\* webrtc::StreamConfig(sample_rate_hz, num_channels)
StreamConfig(rate, channels) ==
    [sample_rate_hz |-> rate, num_channels |-> channels]

\* webrtc::AudioProcessing::Config, the fields the wrapper and its contract
\* speak about.  A default-constructed Config has all of them off.
TopLevelConfigs ==
    [echo_canceller : [enabled : BOOLEAN, mobile_mode : BOOLEAN,
                       export_linear_aec_output : BOOLEAN],
     noise_suppression : [analyze_linear_aec_output_when_available : BOOLEAN]]

DefaultTopLevelConfig ==
    [echo_canceller |-> [enabled |-> FALSE, mobile_mode |-> FALSE,
                         export_linear_aec_output |-> FALSE],
     noise_suppression |-> [analyze_linear_aec_output_when_available |-> FALSE]]

----------------------------------------------------------------------------
(* Echo-canceller (AEC3) configuration *)

\* Two representative fields of webrtc::EchoCanceller3Config stand for the
\* whole structure; build_aec3_config treats every field alike (one
\* assignment each).  The engine accepts delay.down_sampling_factor 4 or 8
\* and filter.coarse.length_blocks 1..50.
DownSamplingFactors == {3, 4, 8}
CoarseLengthBlocks == {0, 13}

\* The values a caller may put in an EchoCanceller3ConfigOverride.
EchoCanceller3ConfigOverrides ==
    [delay_down_sampling_factor : DownSamplingFactors,
     filter_coarse_length_blocks : CoarseLengthBlocks]

\* webrtc::EchoCanceller3Config(), the engine's baseline default.
DefaultEchoCanceller3Config ==
    [delay |-> [down_sampling_factor |-> 4],
     filter |-> [coarse |-> [length_blocks |-> 13]]]

\* webrtc::EchoCanceller3::CreateDefaultMultichannelConfig(): the default
\* with a shorter coarse filter.
CreateDefaultMultichannelConfig ==
    [delay |-> [down_sampling_factor |-> 4],
     filter |-> [coarse |-> [length_blocks |-> 11]]]

\* Limit(value, min, max) of the engine's validation: the clamped value.
Limit(v, lo, hi) == IF v < lo THEN lo ELSE IF v > hi THEN hi ELSE v

\* webrtc::EchoCanceller3Config::Validate(&config): clamps every field into
\* its range in place and returns whether nothing had to be changed.
Validate(config) ==
    LET dsf == IF config.delay.down_sampling_factor \in {4, 8}
               THEN config.delay.down_sampling_factor ELSE 4
        len == Limit(config.filter.coarse.length_blocks, 1, 50)
        clamped == [delay |-> [down_sampling_factor |-> dsf],
                    filter |-> [coarse |-> [length_blocks |-> len]]]
    IN  [ok |-> clamped = config, config |-> clamped]

\* The override that holds, in every field, the value the engine's default
\* config has in the field of the same name.
DefaultOverride ==
    [delay_down_sampling_factor |->
        DefaultEchoCanceller3Config.delay.down_sampling_factor,
     filter_coarse_length_blocks |->
        DefaultEchoCanceller3Config.filter.coarse.length_blocks]

\* A field-by-field copy with one line copied from its neighbour: the coarse
\* filter length is taken from the override's down-sampling factor.
apply_override_miscopy(override) ==
    [delay |-> [down_sampling_factor |-> override.delay_down_sampling_factor],
     filter |-> [coarse |-> [length_blocks |->
                                override.delay_down_sampling_factor]]]

\* The field-by-field copy at the head of build_aec3_config: every field of
\* the config is assigned from the override's field of the same name.
apply_override(override) ==
    [delay |-> [down_sampling_factor |-> override.delay_down_sampling_factor],
     filter |-> [coarse |-> [length_blocks |->
                                override.filter_coarse_length_blocks]]]

\* build_aec3_config that returns the config Validate has clamped.
build_aec3_config_clamped(override) ==
    Validate(apply_override(override)).config

\* build_aec3_config that skips validation.
build_aec3_config_unvalidated(override) == apply_override(override)

\* build_aec3_config: copy every override field into a fresh config, validate;
\* when validation fails the exception is caught and the engine's default
\* config is returned instead.
build_aec3_config(override) ==
    LET config == apply_override(override)
        validated == Validate(config)
    IN  IF ~validated.ok
        THEN DefaultEchoCanceller3Config
        ELSE validated.config

\* EchoCanceller3Factory::Create with the multichannel default never built.
Create_explicit_only(config_, sample_rate_hz, num_render_channels, num_capture_channels) ==
    [config |-> config_,
     multichannel_config |-> NULL,
     sample_rate_hz |-> sample_rate_hz,
     num_render_channels |-> num_render_channels,
     num_capture_channels |-> num_capture_channels]

\* EchoCanceller3Factory::Create: the arguments of the EchoCanceller3 it
\* constructs.  config_ is the factory's own configuration.
Create(config_, sample_rate_hz, num_render_channels, num_capture_channels) ==
    LET multichannel_config ==
            IF num_render_channels > 1 \/ num_capture_channels > 1
            THEN Some(CreateDefaultMultichannelConfig)
            ELSE NULL
    IN  [config |-> config_,
         multichannel_config |-> multichannel_config,
         sample_rate_hz |-> sample_rate_hz,
         num_render_channels |-> num_render_channels,
         num_capture_channels |-> num_capture_channels]

\* The engine's Initialize builds its echo controller through the registered
\* factory, with the live channel counts; without a factory it uses its own.
EngineInitialize(e) ==
    [e EXCEPT !.echo_controller =
        IF e.factory = NULL THEN NULL
        ELSE Some(Create(e.factory[1],
                         e.capture.sample_rate_hz,
                         e.render.num_channels,
                         e.capture.num_channels))]

----------------------------------------------------------------------------
(* The wrapper's functions.  Each operator gives the outcome of one call:   *)
(* the fields it leaves behind, the calls it made and what it returned.     *)

\* One call on a collaborator, as recorded in `trace`.
EngineCall(fn, arg, result) == [fn |-> fn, arg |-> arg, result |-> result]

\* `delete ap` that releases nothing.
delete_ap_leak(h) == h

\* `delete ap`: the struct goes, its unique_ptr releases the engine, and the
\* engine releases the factory it owns.
delete_ap(h) == h \ {"ap", "processor", "factory"}

\* audio_processing_create.  `code` is what the engine's Initialize returns,
\* `error_in` the caller's value of *error at entry.
audio_processing_create(num_capture_channels, num_render_channels, sample_rate_hz, aec3_config_override, code, error_in) ==
    LET factory == IF aec3_config_override # NULL
                   THEN Some(build_aec3_config(aec3_config_override[1]))
                   ELSE NULL
        capture_stream_config == StreamConfig(sample_rate_hz, num_capture_channels)
        render_stream_config == StreamConfig(sample_rate_hz, num_render_channels)
        pconfig == <<capture_stream_config, capture_stream_config,
                     render_stream_config, render_stream_config>>
        new_ap == [config |-> DefaultTopLevelConfig,
                   capture_stream_config |-> capture_stream_config,
                   render_stream_config |-> render_stream_config,
                   stream_delay_ms |-> NULL]
        processor == [factory |-> factory,
                      config |-> DefaultTopLevelConfig,
                      capture |-> capture_stream_config,
                      render |-> render_stream_config,
                      echo_controller |-> NULL]
        allocated == {"ap", "processor"}
                        \cup (IF factory # NULL THEN {"factory"} ELSE {})
        calls == << EngineCall("Initialize", pconfig, code) >>
    IN  IF code # kNoError
        THEN [ap |-> NULL, engine |-> NULL, heap |-> delete_ap(allocated),
              factory |-> factory, trace |-> calls,
              error |-> code, ret |-> NULL]
        ELSE [ap |-> Some(new_ap), engine |-> Some(EngineInitialize(processor)),
              heap |-> allocated,
              factory |-> factory, trace |-> calls,
              error |-> error_in, ret |-> Some("ap")]

\* initialize that brings the engine back to a default-constructed config.
initialize_reset_config(e) ==
    [engine |-> EngineInitialize([e EXCEPT !.config = DefaultTopLevelConfig]),
     trace |-> << EngineCall("Initialize", NULL, NULL) >>]

\* initialize: the engine's Initialize() with the formats it already has.
initialize(e) ==
    [engine |-> EngineInitialize(e),
     trace |-> << EngineCall("Initialize", NULL, NULL) >>]

\* process_capture_frame that pushes the delay whatever the config says.
process_capture_frame_ungated(a, code) ==
    [trace |-> << EngineCall("set_stream_delay_ms",
                             value_or(a.stream_delay_ms, 0), NULL),
                  EngineCall("ProcessStream",
                             <<a.capture_stream_config, a.capture_stream_config>>,
                             code) >>,
     ret |-> code]

\* process_capture_frame that pushes the delay after processing the frame.
process_capture_frame_late_delay(a, code) ==
    [trace |-> << EngineCall("ProcessStream",
                             <<a.capture_stream_config, a.capture_stream_config>>,
                             code) >>
               \o (IF a.config.echo_canceller.enabled
                   THEN << EngineCall("set_stream_delay_ms",
                                      value_or(a.stream_delay_ms, 0), NULL) >>
                   ELSE << >>),
     ret |-> code]

\* process_capture_frame.  `code` is what the engine's ProcessStream returns.
process_capture_frame(a, code) ==
    [trace |-> (IF a.config.echo_canceller.enabled
                THEN << EngineCall("set_stream_delay_ms",
                                   value_or(a.stream_delay_ms, 0), NULL) >>
                ELSE << >>)
               \o << EngineCall("ProcessStream",
                                <<a.capture_stream_config, a.capture_stream_config>>,
                                code) >>,
     ret |-> code]

\* process_render_frame that reports success whatever the engine returned.
process_render_frame_swallow(a, code) ==
    [trace |-> << EngineCall("ProcessReverseStream",
                             <<a.render_stream_config, a.render_stream_config>>,
                             code) >>,
     ret |-> kNoError]

\* process_render_frame that gives the capture descriptor as output format.
process_render_frame_capture_output(a, code) ==
    [trace |-> << EngineCall("ProcessReverseStream",
                             <<a.render_stream_config, a.capture_stream_config>>,
                             code) >>,
     ret |-> code]

\* process_render_frame.  `code` is what ProcessReverseStream returns.
process_render_frame(a, code) ==
    [trace |-> << EngineCall("ProcessReverseStream",
                             <<a.render_stream_config, a.render_stream_config>>,
                             code) >>,
     ret |-> code]

\* get_num_samples_per_frame that leaves the frame duration out: the
\* samples of one millisecond.
get_num_samples_per_frame_per_ms(a) ==
    a.capture_stream_config.sample_rate_hz \div 1000

\* get_num_samples_per_frame
get_num_samples_per_frame(a) ==
    (a.capture_stream_config.sample_rate_hz * kChunkSizeMs) \div 1000

\* set_config that applies the linear-AEC-output consistency rules to the
\* config before storing and applying it.
set_config_normalized(a, e, config) ==
    LET export == /\ config.echo_canceller.export_linear_aec_output
                  /\ a.capture_stream_config.sample_rate_hz = 16000
                  /\ ~config.echo_canceller.mobile_mode
        analyze ==
            /\ config.noise_suppression.analyze_linear_aec_output_when_available
            /\ export
        normal == [config EXCEPT
                     !.echo_canceller.export_linear_aec_output = export,
                     !.noise_suppression.analyze_linear_aec_output_when_available
                         = analyze]
    IN  [ap |-> [a EXCEPT !.config = normal],
         engine |-> [e EXCEPT !.config = normal],
         trace |-> << EngineCall("ApplyConfig", normal, NULL) >>]

\* set_config: store the config in the session, hand it to the engine.
set_config(a, e, config) ==
    [ap |-> [a EXCEPT !.config = config],
     engine |-> [e EXCEPT !.config = config],
     trace |-> << EngineCall("ApplyConfig", config, NULL) >>]

\* set_stream_delay_ms that keeps a delay already stored.
set_stream_delay_ms_first_wins(a, delay) ==
    IF a.stream_delay_ms = NULL
    THEN [a EXCEPT !.stream_delay_ms = Some(delay)]
    ELSE a

\* set_stream_delay_ms: store only.
set_stream_delay_ms(a, delay) == [a EXCEPT !.stream_delay_ms = Some(delay)]

----------------------------------------------------------------------------
(* Statistics *)

\* The members of webrtc::AudioProcessingStats that get_stats reads.
EngineStatNames ==
    {"voice_detected", "echo_return_loss", "echo_return_loss_enhancement",
     "divergent_filter_fraction", "delay_median_ms",
     "delay_standard_deviation_ms", "residual_echo_likelihood",
     "residual_echo_likelihood_recent_max", "delay_ms"}

\* The reports the engine may give: no statistic present (cold start), one
\* of them, or all of them.
EngineStatistics ==
    LET PresentSets == {P \in SUBSET EngineStatNames : Cardinality(P) <= 1}
                       \cup {EngineStatNames}
    IN  {[n \in EngineStatNames |-> IF n \in P THEN Some(v) ELSE NULL] :
            P \in PresentSets, v \in 1..MaxStatValue}

\* The members of struct Stats, in declaration order.
Stats ==
    << "output_rms_dbfs", "voice_detected", "echo_return_loss",
       "echo_return_loss_enhancement", "divergent_filter_fraction",
       "delay_median_ms", "delay_standard_deviation_ms",
       "residual_echo_likelihood", "residual_echo_likelihood_recent_max",
       "delay_ms" >>

\* OptionalDouble / OptionalInt / OptionalBool as default-initialised.
DefaultOptional == [has_value |-> FALSE, value |-> 0]

\* from_absl_optional: has_value and value_or(0)
from_absl_optional(optional) ==
    [has_value |-> optional # NULL, value |-> value_or(optional, 0)]

\* The initializer list of the Stats aggregate get_stats returns, in order:
\* the engine statistic each initializer converts.
get_stats_initializers ==
    << "voice_detected", "echo_return_loss", "echo_return_loss_enhancement",
       "divergent_filter_fraction", "delay_median_ms",
       "delay_standard_deviation_ms", "residual_echo_likelihood",
       "residual_echo_likelihood_recent_max", "delay_ms" >>

\* get_stats: aggregate initialisation is positional; the i-th member of
\* Stats takes the i-th initializer, and members beyond the list keep their
\* default member initialisers.
get_stats(stats) ==
    [f \in Range(Stats) |->
        LET i == CHOOSE k \in 1..Len(Stats) : Stats[k] = f
        IN  IF i <= Len(get_stats_initializers)
            THEN from_absl_optional(stats[get_stats_initializers[i]])
            ELSE DefaultOptional]

\* get_stats that pushes the stored stream delay before it reads.
get_stats_calls_pushing_delay(a, stats) ==
    << EngineCall("set_stream_delay_ms", value_or(a.stream_delay_ms, 0), NULL),
       EngineCall("GetStatistics", NULL, stats) >>

\* The calls get_stats makes on the engine: GetStatistics, and nothing else.
\* `stats` is what the engine reports.
get_stats_calls(a, stats) == << EngineCall("GetStatistics", NULL, stats) >>

----------------------------------------------------------------------------
(* Shared echo-canceller config holder and setAecConfig (hotswap protocol) *)

\* Full echo-canceller configurations a caller may hand to setAecConfig.
EchoCanceller3Configs ==
    {[delay |-> [down_sampling_factor |-> d],
      filter |-> [coarse |-> [length_blocks |-> l]]] :
        d \in DownSamplingFactors, l \in CoarseLengthBlocks}

\* kBadParameterError
kBadParameterError == -6

\* setConfig that always stores and reports a change.
setConfig_always(stored, candidate) == [changed |-> TRUE, stored |-> candidate]

\* The holder's setConfig: compare the candidate (or "cleared") with the
\* stored configuration; store and report true only when they differ.
setConfig(stored, candidate) ==
    IF stored # candidate
    THEN [changed |-> TRUE, stored |-> candidate]
    ELSE [changed |-> FALSE, stored |-> stored]

\* setAecConfig: validate a full replacement (NULL reverts to the defaults),
\* apply it through the holder, reinitialize only on change.
set_aec_config(e, stored, candidate) ==
    IF candidate # NULL /\ ~Validate(candidate[1]).ok
    THEN [engine |-> e, stored |-> stored, trace |-> << >>,
          ret |-> kBadParameterError]
    ELSE LET r == setConfig(stored, candidate)
         IN  [engine |-> IF r.changed THEN initialize(e).engine ELSE e,
              stored |-> r.stored,
              trace |-> << EngineCall("setConfig", candidate, r.changed) >>
                        \o (IF r.changed THEN initialize(e).trace ELSE << >>),
              ret |-> kNoError]

----------------------------------------------------------------------------
(* The caller's steps: one action per wrapper function *)

\* Both caller threads outside the wrapper.
ThreadsIdle ==
    [capture_pc |-> "idle", capture_raced |-> FALSE,
     writer_pc |-> "idle", writer_delay |-> 0,
     writer_config |-> DefaultTopLevelConfig]

Init ==
    /\ ap = NULL
    /\ engine = NULL
    /\ heap = {}
    /\ config_holder = NULL
    /\ call = "none"
    /\ args = NULL
    /\ trace = << >>
    /\ ret = NULL
    /\ ret_ap = NULL
    /\ ret_stats = NULL
    /\ error = kNoError
    /\ last_delay_arg = NULL
    /\ threads = ThreadsIdle

\* The caller passes the address of an int it has just set to kNoError.
Call_audio_processing_create ==
    /\ ap = NULL
    /\ call' = "audio_processing_create"
    /\ \E ncap \in Channels, nren \in Channels, rate \in SampleRates,
          ov \in {NULL} \cup {Some(o) : o \in EchoCanceller3ConfigOverrides},
          code \in EngineCodes :
        LET r == audio_processing_create(ncap, nren, rate, ov, code, kNoError)
        IN  /\ args' = [num_capture_channels |-> ncap,
                        num_render_channels |-> nren,
                        sample_rate_hz |-> rate,
                        aec3_config_override |-> ov]
            /\ ap' = r.ap
            /\ engine' = r.engine
            /\ heap' = r.heap
            /\ config_holder' = IF r.ap = NULL THEN NULL ELSE r.factory
            /\ trace' = r.trace
            /\ ret_ap' = r.ret
            /\ error' = r.error
            /\ last_delay_arg' = NULL
    /\ ret' = NULL
    /\ ret_stats' = NULL
    /\ UNCHANGED threads

Call_audio_processing_delete ==
    /\ ap # NULL
    /\ call' = "audio_processing_delete"
    /\ args' = NULL
    /\ ap' = NULL
    /\ engine' = NULL
    /\ heap' = delete_ap(heap)
    /\ config_holder' = NULL
    /\ trace' = << >>
    /\ ret' = NULL
    /\ last_delay_arg' = NULL
    /\ ret_ap' = NULL
    /\ ret_stats' = NULL
    /\ UNCHANGED <<error, threads>>

Call_initialize ==
    /\ ap # NULL
    /\ call' = "initialize"
    /\ args' = NULL
    /\ LET r == initialize(engine[1])
       IN  /\ engine' = Some(r.engine)
           /\ trace' = r.trace
    /\ ret' = NULL
    /\ ret_ap' = NULL
    /\ ret_stats' = NULL
    /\ UNCHANGED <<ap, heap, config_holder, error, last_delay_arg, threads>>

Call_process_capture_frame ==
    /\ ap # NULL
    /\ call' = "process_capture_frame"
    /\ args' = NULL
    /\ \E code \in EngineCodes :
        LET r == process_capture_frame(ap[1], code)
        IN  /\ trace' = r.trace
            /\ ret' = Some(r.ret)
    /\ ret_ap' = NULL
    /\ ret_stats' = NULL
    /\ UNCHANGED <<ap, engine, heap, config_holder, error,
                 last_delay_arg, threads>>

Call_process_render_frame ==
    /\ ap # NULL
    /\ call' = "process_render_frame"
    /\ args' = NULL
    /\ \E code \in EngineCodes :
        LET r == process_render_frame(ap[1], code)
        IN  /\ trace' = r.trace
            /\ ret' = Some(r.ret)
    /\ ret_ap' = NULL
    /\ ret_stats' = NULL
    /\ UNCHANGED <<ap, engine, heap, config_holder, error,
                 last_delay_arg, threads>>

Call_get_stats ==
    /\ ap # NULL
    /\ call' = "get_stats"
    /\ args' = NULL
    /\ \E stats \in EngineStatistics :
        /\ trace' = get_stats_calls(ap[1], stats)
        /\ ret_stats' = Some(get_stats(stats))
    /\ ret' = NULL
    /\ ret_ap' = NULL
    /\ UNCHANGED <<ap, engine, heap, config_holder, error,
                 last_delay_arg, threads>>

Call_get_num_samples_per_frame ==
    /\ ap # NULL
    /\ call' = "get_num_samples_per_frame"
    /\ args' = NULL
    /\ ret' = Some(get_num_samples_per_frame(ap[1]))
    /\ trace' = << >>
    /\ ret_ap' = NULL
    /\ ret_stats' = NULL
    /\ UNCHANGED <<ap, engine, heap, config_holder, error,
                 last_delay_arg, threads>>

Call_set_config ==
    /\ ap # NULL
    /\ call' = "set_config"
    /\ \E config \in TopLevelConfigs :
        LET r == set_config(ap[1], engine[1], config)
        IN  /\ args' = [config |-> config]
            /\ ap' = Some(r.ap)
            /\ engine' = Some(r.engine)
            /\ trace' = r.trace
    /\ ret' = NULL
    /\ ret_ap' = NULL
    /\ ret_stats' = NULL
    /\ UNCHANGED <<heap, config_holder, error, last_delay_arg, threads>>

Call_set_stream_delay_ms ==
    /\ ap # NULL
    /\ call' = "set_stream_delay_ms"
    /\ \E delay \in Delays :
        /\ args' = [delay |-> delay]
        /\ ap' = Some(set_stream_delay_ms(ap[1], delay))
        /\ last_delay_arg' = Some(delay)
    /\ trace' = << >>
    /\ ret' = NULL
    /\ ret_ap' = NULL
    /\ ret_stats' = NULL
    /\ UNCHANGED <<engine, heap, config_holder, error, threads>>

Call_set_aec_config ==
    /\ ap # NULL
    /\ call' = "set_aec_config"
    /\ \E candidate \in {NULL} \cup {Some(c) : c \in EchoCanceller3Configs} :
        LET r == set_aec_config(engine[1], config_holder, candidate)
        IN  /\ args' = [candidate |-> candidate]
            /\ engine' = Some(r.engine)
            /\ config_holder' = r.stored
            /\ trace' = r.trace
            /\ ret' = Some(r.ret)
    /\ ret_ap' = NULL
    /\ ret_stats' = NULL
    /\ UNCHANGED <<ap, heap, error, last_delay_arg, threads>>

----------------------------------------------------------------------------
(* Two caller threads on one session.  The capture thread runs             *)
(* process_capture_frame, the writer thread runs set_stream_delay_ms and    *)
(* set_config; each step below is one access to a field of the session or  *)
(* one call on the engine.  The wrapper takes no lock anywhere, so the      *)
(* steps of the two threads interleave freely.  `trace` holds the engine    *)
(* calls of the current (or last) call of each thread.                      *)

\* The capture thread is about to read a field of the session that the
\* writer thread is about to write: the two accesses are not ordered.
RacesOn(capture_pc, writer_pc) ==
    \/ capture_pc = "load_config" /\ writer_pc = "store_config"
    \/ capture_pc = "load_delay" /\ writer_pc = "store_delay"

\* What an unordered read of the std::optional<int> may yield: a stored
\* delay, the 0 of an empty optional, or the bytes under an optional whose
\* flag is already set and whose value is not yet (MaxDelay + 1 stands for
\* any value no caller stored).
RacyDelays == Delays \cup {MaxDelay + 1}

\* The configs the writer thread passes: the default one, with the echo
\* canceller on or off.
ThreadConfigs ==
    {[DefaultTopLevelConfig EXCEPT !.echo_canceller.enabled = b] : b \in BOOLEAN}

ByWriter(c) == c.fn = "ApplyConfig"
ByCapture(c) == c.fn # "ApplyConfig"

\* One session at 16 kHz mono with the engine's own echo canceller.
Threads_create ==
    /\ Call_audio_processing_create
    /\ args'.sample_rate_hz = 16000
    /\ args'.num_capture_channels = 1
    /\ args'.num_render_channels = 1
    /\ args'.aec3_config_override = NULL

\* The capture thread calls process_capture_frame.
Capture_enter ==
    /\ ap # NULL
    /\ threads.capture_pc = "idle"
    /\ call' = "process_capture_frame"
    /\ args' = NULL
    /\ trace' = SelectSeq(trace, ByWriter)
    /\ ret' = NULL
    /\ threads' = [threads EXCEPT
                     !.capture_pc = "load_config",
                     !.capture_raced = RacesOn("load_config", threads.writer_pc)]
    /\ UNCHANGED <<ap, engine, heap, config_holder, ret_ap, ret_stats, error,
                   last_delay_arg>>

\* `if (ap->config.echo_canceller.enabled)`: the read of the stored config.
Capture_load_config ==
    /\ threads.capture_pc = "load_config"
    /\ \E enabled \in (IF threads.capture_raced THEN BOOLEAN
                       ELSE {ap[1].config.echo_canceller.enabled}) :
        LET next == IF enabled THEN "load_delay" ELSE "process"
        IN  threads' = [threads EXCEPT
                          !.capture_pc = next,
                          !.capture_raced = RacesOn(next, threads.writer_pc)]
    /\ UNCHANGED <<ap, engine, heap, config_holder, call, args, trace, ret,
                   ret_ap, ret_stats, error, last_delay_arg>>

\* `set_stream_delay_ms(ap->stream_delay_ms.value_or(0))`: the read of the
\* stored delay, and the push of what was read.
Capture_load_delay ==
    /\ threads.capture_pc = "load_delay"
    /\ \E delay \in (IF threads.capture_raced THEN RacyDelays
                     ELSE {value_or(ap[1].stream_delay_ms, 0)}) :
        trace' = Append(trace, EngineCall("set_stream_delay_ms", delay, NULL))
    /\ threads' = [threads EXCEPT !.capture_pc = "process",
                                  !.capture_raced = FALSE]
    /\ UNCHANGED <<ap, engine, heap, config_holder, call, args, ret, ret_ap,
                   ret_stats, error, last_delay_arg>>

\* `return ap->processor->ProcessStream(...)`.
Capture_process ==
    /\ threads.capture_pc = "process"
    /\ \E code \in EngineCodes :
        /\ trace' = Append(trace,
                EngineCall("ProcessStream",
                           <<ap[1].capture_stream_config,
                             ap[1].capture_stream_config>>, code))
        /\ ret' = Some(code)
    /\ threads' = [threads EXCEPT !.capture_pc = "idle"]
    /\ UNCHANGED <<ap, engine, heap, config_holder, call, args, ret_ap,
                   ret_stats, error, last_delay_arg>>

\* The writer thread calls set_stream_delay_ms(ap, delay).
Writer_enter_set_stream_delay_ms ==
    /\ ap # NULL
    /\ threads.writer_pc = "idle"
    /\ call' = "set_stream_delay_ms"
    /\ \E delay \in Delays :
        /\ args' = [delay |-> delay]
        /\ threads' = [threads EXCEPT
                         !.writer_pc = "store_delay",
                         !.writer_delay = delay,
                         !.capture_raced =
                             @ \/ RacesOn(threads.capture_pc, "store_delay")]
    /\ UNCHANGED <<ap, engine, heap, config_holder, trace, ret, ret_ap,
                   ret_stats, error, last_delay_arg>>

\* `ap->stream_delay_ms = delay`: the write of the stored delay.
Writer_store_delay ==
    /\ threads.writer_pc = "store_delay"
    /\ ap' = Some(set_stream_delay_ms(ap[1], threads.writer_delay))
    /\ last_delay_arg' = Some(threads.writer_delay)
    /\ threads' = [threads EXCEPT !.writer_pc = "idle", !.writer_delay = 0]
    /\ UNCHANGED <<engine, heap, config_holder, call, args, trace, ret, ret_ap,
                   ret_stats, error>>

\* The writer thread calls set_config(ap, config).
Writer_enter_set_config ==
    /\ ap # NULL
    /\ threads.writer_pc = "idle"
    /\ call' = "set_config"
    /\ trace' = SelectSeq(trace, ByCapture)
    /\ \E config \in ThreadConfigs :
        /\ args' = [config |-> config]
        /\ threads' = [threads EXCEPT
                         !.writer_pc = "store_config",
                         !.writer_config = config,
                         !.capture_raced =
                             @ \/ RacesOn(threads.capture_pc, "store_config")]
    /\ UNCHANGED <<ap, engine, heap, config_holder, ret, ret_ap, ret_stats,
                   error, last_delay_arg>>

\* `ap->config = config`: the write of the stored config.
Writer_store_config ==
    /\ threads.writer_pc = "store_config"
    /\ ap' = Some(set_config(ap[1], engine[1], threads.writer_config).ap)
    /\ threads' = [threads EXCEPT !.writer_pc = "apply_config"]
    /\ UNCHANGED <<engine, heap, config_holder, call, args, trace, ret, ret_ap,
                   ret_stats, error, last_delay_arg>>

\* `ap->processor->ApplyConfig(config)`.
Writer_apply_config ==
    /\ threads.writer_pc = "apply_config"
    /\ LET r == set_config(ap[1], engine[1], threads.writer_config)
       IN  /\ engine' = Some(r.engine)
           /\ trace' = trace \o r.trace
    /\ threads' = [threads EXCEPT !.writer_pc = "idle",
                                  !.writer_config = DefaultTopLevelConfig]
    /\ UNCHANGED <<ap, heap, config_holder, call, args, ret, ret_ap, ret_stats,
                   error, last_delay_arg>>

NextThreads ==
    \/ Threads_create
    \/ Capture_enter
    \/ Capture_load_config
    \/ Capture_load_delay
    \/ Capture_process
    \/ Writer_enter_set_stream_delay_ms
    \/ Writer_store_delay
    \/ Writer_enter_set_config
    \/ Writer_store_config
    \/ Writer_apply_config

SpecThreads == Init /\ [][NextThreads]_vars

----------------------------------------------------------------------------
(* A single caller thread *)

Next ==
    \/ Call_audio_processing_create
    \/ Call_audio_processing_delete
    \/ Call_initialize
    \/ Call_process_capture_frame
    \/ Call_process_render_frame
    \/ Call_get_stats
    \/ Call_get_num_samples_per_frame
    \/ Call_set_config
    \/ Call_set_stream_delay_ms

Spec == Init /\ [][Next]_vars

\* A caller that creates a session, swaps echo-canceller configurations,
\* reinitializes and processes frames.
NextHotswap ==
    \/ Call_audio_processing_create
    \/ Call_audio_processing_delete
    \/ Call_set_aec_config
    \/ Call_initialize
    \/ Call_process_capture_frame
    \/ Call_process_render_frame

SpecHotswap == Init /\ [][NextHotswap]_vars

----------------------------------------------------------------------------
(* Properties *)

\* The positions in `trace` of the calls to the engine function `fn`.
CallsTo(fn) == {i \in 1..Len(trace) : trace[i].fn = fn}

\* The session's capture sample rate.
CaptureRate == ap[1].capture_stream_config.sample_rate_hz

\* C1: stream-delay gating.  After a process_capture_frame under an active
\* config with the echo canceller disabled, the engine has received no
\* set_stream_delay_ms call from that frame, whatever delay was stored before.
C1_StreamDelayGating ==
    (call = "process_capture_frame"
        /\ ~ap[1].config.echo_canceller.enabled)
    => CallsTo("set_stream_delay_ms") = {}

\* C1 witness: a capture frame processed with the echo canceller disabled
\* after the caller had stored a non-default delay.
C1_Witness ==
    /\ call = "process_capture_frame"
    /\ ~ap[1].config.echo_canceller.enabled
    /\ last_delay_arg = Some(1)
    /\ ap[1].stream_delay_ms = Some(1)
    /\ CallsTo("ProcessStream") # {}

\* C2: with the echo canceller enabled, every process_capture_frame pushes
\* the delay hint into the engine exactly once, before the engine's capture
\* processing call of that frame; the value pushed is the argument of the
\* caller's latest set_stream_delay_ms, and 0 if there was none.
C2_DelayPushedBeforeProcessing ==
    (call = "process_capture_frame"
        /\ ap[1].config.echo_canceller.enabled)
    => /\ Cardinality(CallsTo("set_stream_delay_ms")) = 1
       /\ Cardinality(CallsTo("ProcessStream")) = 1
       /\ \A i \in CallsTo("set_stream_delay_ms") :
            /\ \A j \in CallsTo("ProcessStream") : i < j
            /\ trace[i].arg = (IF last_delay_arg = NULL THEN 0
                               ELSE last_delay_arg[1])

\* C2 witness: a capture frame with the echo canceller enabled on a session
\* whose delay was never set, pushing 0 ahead of the processing call.
C2_Witness ==
    /\ call = "process_capture_frame"
    /\ ap[1].config.echo_canceller.enabled
    /\ last_delay_arg = NULL
    /\ Len(trace) = 2
    /\ trace[1].fn = "set_stream_delay_ms"
    /\ trace[1].arg = 0
    /\ trace[2].fn = "ProcessStream"

\* C3: pass-through of the engine's status.  process_capture_frame and
\* process_render_frame make exactly one engine processing call for the frame
\* and return exactly the code that call returned.
C3_StatusPassThrough ==
    /\ call = "process_capture_frame"
        => /\ Cardinality(CallsTo("ProcessStream")) = 1
           /\ CallsTo("ProcessReverseStream") = {}
           /\ \A i \in CallsTo("ProcessStream") : ret = Some(trace[i].result)
    /\ call = "process_render_frame"
        => /\ Cardinality(CallsTo("ProcessReverseStream")) = 1
           /\ CallsTo("ProcessStream") = {}
           /\ \A i \in CallsTo("ProcessReverseStream") :
                ret = Some(trace[i].result)

\* C3 witness: a render frame for which the engine reported an error, and the
\* caller received that error.
C3_Witness ==
    /\ call = "process_render_frame"
    /\ trace[1].result = -7
    /\ ret = Some(-7)

\* C4: construction failure is atomic.  When the engine's Initialize returns
\* a non-zero code during create, *error holds that code, create returns
\* NULL, and neither the session, its engine nor the factory stays allocated.
C4_ConstructionFailureAtomic ==
    (call = "audio_processing_create" /\ trace[1].result # kNoError)
    => /\ error = trace[1].result
       /\ ret_ap = NULL
       /\ ap = NULL
       /\ engine = NULL
       /\ heap = {}

\* C4 witness: create with an override (so a factory was allocated too)
\* whose formats the engine rejected.
C4_Witness ==
    /\ call = "audio_processing_create"
    /\ args.aec3_config_override # NULL
    /\ trace[1].fn = "Initialize"
    /\ trace[1].result = -9
    /\ ret_ap = NULL

\* C5 (as claimed): create with an override whose derived configuration fails
\* the engine's validation is rejected with kBadParameterError and returns no
\* session, also when the engine has nothing against the stream formats.
C5_InvalidOverrideRejected ==
    (/\ call = "audio_processing_create"
     /\ args.aec3_config_override # NULL
     /\ ~Validate(apply_override(args.aec3_config_override[1])).ok
     /\ trace[1].result = kNoError)
    => /\ ret_ap = NULL
       /\ ap = NULL
       /\ error = kBadParameterError

\* C5 (amended): create with an override whose derived configuration fails
\* validation is not rejected.  The override is dropped as a whole, the
\* factory is bound to the engine's baseline default, and create goes on as
\* for any other override: it returns the session, and leaves *error alone,
\* when the engine's Initialize accepts the formats, and reports the engine's
\* own code otherwise.
C5_InvalidOverrideFallsBack ==
    (/\ call = "audio_processing_create"
     /\ args.aec3_config_override # NULL
     /\ ~Validate(apply_override(args.aec3_config_override[1])).ok)
    => IF trace[1].result = kNoError
       THEN /\ ret_ap # NULL
            /\ ap # NULL
            /\ error = kNoError
            /\ engine[1].factory = Some(DefaultEchoCanceller3Config)
       ELSE /\ ret_ap = NULL
            /\ error = trace[1].result

\* C5 witness: a session returned by a create whose override was invalid.
C5_Witness ==
    /\ call = "audio_processing_create"
    /\ args.aec3_config_override
         = Some([delay_down_sampling_factor |-> 3,
                 filter_coarse_length_blocks |-> 13])
    /\ ret_ap # NULL
    /\ engine[1].factory = Some(DefaultEchoCanceller3Config)

\* C6: validate-or-reject of the override.  The configuration a created
\* session's factory holds is either the override copied field by field, and
\* then it passes validation unchanged, or exactly the engine's baseline
\* default; never a configuration that honours one override field and clamps
\* or defaults another.
C6_ValidateOrReject ==
    (/\ call = "audio_processing_create"
     /\ args.aec3_config_override # NULL
     /\ ret_ap # NULL)
    => LET override == args.aec3_config_override[1]
           config == engine[1].factory[1]
       IN  \/ /\ config = apply_override(override)
              /\ Validate(config).ok
              /\ Validate(config).config = config
           \/ config = DefaultEchoCanceller3Config

\* C6 witness: an override with one valid non-default field and one invalid
\* field; the valid field is not honoured either.
C6_Witness ==
    /\ call = "audio_processing_create"
    /\ args.aec3_config_override
         = Some([delay_down_sampling_factor |-> 8,
                 filter_coarse_length_blocks |-> 0])
    /\ ret_ap # NULL
    /\ engine[1].factory[1].delay.down_sampling_factor = 4
    /\ engine[1].factory[1].filter.coarse.length_blocks = 13

C8_HotswapIdempotence ==
    [][call' = "set_aec_config"
        => LET reinit == \E i \in 1..Len(trace') : trace'[i].fn = "Initialize"
           IN  /\ reinit <=> (config_holder' # config_holder)
               /\ (args'.candidate = config_holder)
                    => /\ config_holder' = config_holder
                       /\ ~reinit
                       /\ Len(trace') = 1
                       /\ trace'[1].fn = "setConfig"
                       /\ trace'[1].result = FALSE
               /\ Cardinality({i \in 1..Len(trace') :
                                 trace'[i].fn = "Initialize"}) <= 1]_vars

\* C8 witness: a setAecConfig with the configuration already stored (not the
\* cleared one): reported unchanged, no Initialize.
C8_Witness ==
    /\ call = "set_aec_config"
    /\ args.candidate # NULL
    /\ args.candidate = config_holder
    /\ Len(trace) = 1
    /\ trace[1].fn = "setConfig"
    /\ trace[1].result = FALSE

C10_StatsAbsencePropagation ==
    call = "get_stats"
    => LET reported == trace[1].result
       IN  \A f \in DOMAIN ret_stats[1] :
              LET present == f \in DOMAIN reported /\ reported[f] # NULL
              IN  /\ ret_stats[1][f].has_value <=> present
                  /\ ret_stats[1][f].has_value /\ present
                        => ret_stats[1][f].value = reported[f][1]

\* C11: thread safety of session state.  The accesses of a
\* process_capture_frame to the stored config and the stored stream delay
\* are ordered by a lock against the writes of a concurrent set_config or
\* set_stream_delay_ms: the capture thread is never at its read of a field
\* while the writer thread is at its write of the same field, and so no read
\* yields anything but what a serial order of the two calls yields.
C11_SessionStateLocked ==
    /\ ~RacesOn(threads.capture_pc, threads.writer_pc)
    /\ ~threads.capture_raced

\* C12: initialize retains all user settings.  An initialize step makes one
\* engine Initialize call, with no new formats, and leaves the session's
\* descriptors, stored stream delay and stored config as they were; the engine
\* keeps its formats, its applied config and its factory.  A capture frame
\* processed right after it makes the same engine calls as one processed
\* right before it would have.
C12_InitializeRetainsSettings ==
    [][call' = "initialize"
        => /\ ap' = ap
           /\ trace' = << EngineCall("Initialize", NULL, NULL) >>
           /\ engine'[1].config = engine[1].config
           /\ engine'[1].capture = engine[1].capture
           /\ engine'[1].render = engine[1].render
           /\ engine'[1].factory = engine[1].factory
           /\ \A code \in EngineCodes :
                process_capture_frame(ap'[1], code)
                    = process_capture_frame(ap[1], code)]_vars

\* C12 witness: initialize on a session with the echo canceller enabled and
\* a stored delay of 1, both still there afterwards.
C12_Witness ==
    /\ call = "initialize"
    /\ trace = << EngineCall("Initialize", NULL, NULL) >>
    /\ ap[1].config.echo_canceller.enabled
    /\ engine[1].config.echo_canceller.enabled
    /\ ap[1].stream_delay_ms = Some(1)

C14_GetStatsPureRead ==
    [][call' = "get_stats"
        => /\ Len(trace') = 1
           /\ trace'[1].fn = "GetStatistics"
           /\ ap' = ap
           /\ engine' = engine
           /\ heap' = heap
           /\ config_holder' = config_holder
           /\ error' = error
           /\ last_delay_arg' = last_delay_arg]_vars

\* C14 witness: get_stats on a session with the echo canceller enabled and a
\* stored delay of 1, the engine reporting a statistic.
C14_Witness ==
    /\ call = "get_stats"
    /\ ap[1].config.echo_canceller.enabled
    /\ ap[1].stream_delay_ms = Some(1)
    /\ trace[1].fn = "GetStatistics"
    /\ trace[1].result.delay_ms # NULL
    /\ ret_stats # NULL

\* C15: get_num_samples_per_frame returns the capture sample rate times 10
\* divided by 1000, that is 80, 160, 320, 480 samples at 8000, 16000, 32000,
\* 48000 Hz.  The rate is the one passed to create, and no step on a live
\* session changes it, so the value is fixed for the session's life.
C15_SamplesPerFrameFixed ==
    [][LET expected(rate) == CASE rate = 8000 -> 80
                               [] rate = 16000 -> 160
                               [] rate = 32000 -> 320
                               [] rate = 48000 -> 480
       IN  /\ call' = "get_num_samples_per_frame"
                => /\ ret' = Some(expected(ap'[1].capture_stream_config.sample_rate_hz))
                   /\ ret' = Some((ap'[1].capture_stream_config.sample_rate_hz
                                    * 10) \div 1000)
           /\ (call' = "audio_processing_create" /\ ap' # NULL)
                => ap'[1].capture_stream_config.sample_rate_hz
                        = args'.sample_rate_hz
           /\ (ap # NULL /\ ap' # NULL)
                => /\ ap'[1].capture_stream_config.sample_rate_hz
                        = ap[1].capture_stream_config.sample_rate_hz
                   /\ get_num_samples_per_frame(ap'[1])
                        = get_num_samples_per_frame(ap[1])]_vars

\* C15 witness: 480 returned for a 48000 Hz session whose config and delay
\* were changed after create.
C15_Witness ==
    /\ call = "get_num_samples_per_frame"
    /\ CaptureRate = 48000
    /\ ap[1].config # DefaultTopLevelConfig
    /\ ap[1].stream_delay_ms = Some(1)
    /\ ret = Some(480)

\* C16: single format per direction, fixed for the session's life.  No step
\* on a live session changes its capture or render descriptor, which are the
\* ones built from create's arguments; the Initialize of create gets
\* <<capture, capture, render, render>>, every ProcessStream gets the stored
\* capture descriptor as input and as output format, and every
\* ProcessReverseStream the stored render descriptor as both.
C16_SingleFormatPerDirection ==
    [][/\ (ap # NULL /\ ap' # NULL)
            => /\ ap'[1].capture_stream_config = ap[1].capture_stream_config
               /\ ap'[1].render_stream_config = ap[1].render_stream_config
       /\ call' = "audio_processing_create"
            => LET capture == StreamConfig(args'.sample_rate_hz,
                                           args'.num_capture_channels)
                   render == StreamConfig(args'.sample_rate_hz,
                                          args'.num_render_channels)
               IN  /\ Len(trace') = 1
                   /\ trace'[1].fn = "Initialize"
                   /\ trace'[1].arg = <<capture, capture, render, render>>
                   /\ ap' # NULL
                        => /\ ap'[1].capture_stream_config = capture
                           /\ ap'[1].render_stream_config = render
       /\ \A i \in 1..Len(trace') :
            /\ trace'[i].fn = "ProcessStream"
                => trace'[i].arg = <<ap'[1].capture_stream_config,
                                     ap'[1].capture_stream_config>>
            /\ trace'[i].fn = "ProcessReverseStream"
                => trace'[i].arg = <<ap'[1].render_stream_config,
                                     ap'[1].render_stream_config>>]_vars

\* C16 witness: a render frame on a session with mono capture and stereo
\* render, processed with the stereo descriptor as input and output format.
C16_Witness ==
    /\ call = "process_render_frame"
    /\ ap[1].capture_stream_config.num_channels = 1
    /\ ap[1].render_stream_config.num_channels = 2
    /\ trace[1].fn = "ProcessReverseStream"
    /\ trace[1].arg = <<ap[1].render_stream_config, ap[1].render_stream_config>>

\* C17: the stream-delay hint is store-only and last-write-wins.  A
\* set_stream_delay_ms step stores its argument and makes no engine call; no
\* other step on a live session changes the stored delay; the engine gets a
\* set_stream_delay_ms call only inside a process_capture_frame with the echo
\* canceller enabled, and every such frame pushes the argument of the
\* caller's latest set_stream_delay_ms on the session, whatever set_config,
\* initialize, process_render_frame, get_stats or capture frames came between.
C17_StoreOnlyLastWriteWins ==
    [][/\ call' = "set_stream_delay_ms"
            => /\ trace' = << >>
               /\ engine' = engine
               /\ ap'[1].stream_delay_ms = Some(args'.delay)
       /\ (ap # NULL /\ ap' # NULL /\ call' # "set_stream_delay_ms")
            => ap'[1].stream_delay_ms = ap[1].stream_delay_ms
       /\ \A i \in 1..Len(trace') :
            trace'[i].fn = "set_stream_delay_ms"
                => /\ call' = "process_capture_frame"
                   /\ ap'[1].config.echo_canceller.enabled
                   /\ last_delay_arg' # NULL
                        => trace'[i].arg = last_delay_arg'[1]
       /\ (/\ call' = "process_capture_frame"
           /\ ap'[1].config.echo_canceller.enabled
           /\ last_delay_arg' # NULL)
            => \E i \in 1..Len(trace') :
                 /\ trace'[i].fn = "set_stream_delay_ms"
                 /\ trace'[i].arg = last_delay_arg'[1]]_vars

\* C17 witness: a capture frame with the echo canceller enabled pushing the
\* 1 of the caller's latest set_stream_delay_ms.
C17_Witness ==
    /\ call = "process_capture_frame"
    /\ ap[1].config.echo_canceller.enabled
    /\ last_delay_arg = Some(1)
    /\ Len(trace) = 2
    /\ trace[1].fn = "set_stream_delay_ms"
    /\ trace[1].arg = 1

====
